---- MODULE Spec2Model ----
(***************************************************************************)
(* Model of simulation/spice.py: the NetList / SubCircuit construction API *)
(* (add_subcircuit, rlc_instance, subcircuit_instance), the writer         *)
(* (write_in_fpath, _write_subcircuit) and the parser (load_from_file).    *)
(*                                                                         *)
(* A Python str is a sequence of one-character strings, so that split(),   *)
(* join, zfill, '%d' and '%.6e' are computed and not assumed.  A text file *)
(* is the sequence of its lines, each ending in the newline character.     *)
(***************************************************************************)
EXTENDS Integers, Sequences, FiniteSets, TLC

VARIABLES
    heap,     \* object id -> the object's attributes (0 is the root NetList)
    file,     \* the lines of the netlist file written so far
    wpc,      \* position of write_in_fpath in its three passes (0 = not running)
    result,   \* what the last call did: its name, arguments and outcome
    ld,       \* the frame of the load in progress
    written,  \* the sub-circuit whose text the last load read, or -1
    ncalls,   \* per scope and RLC label, the successful rlc_instance calls so far
    ops       \* number of calls made so far

vars == <<heap, file, wpc, ld, written, result, ncalls, ops>>

----------------------------------------------------------------------------
(* Bounds of the model *)

MaxOps == 4
MaxLoadOps == 2
MaxLines == 3

(* Program constants *)

_ZFILL_WIDTH == 5

----------------------------------------------------------------------------
(* Python str and list primitives *)

NL == "\n"
_END_OF_LINE == <<NL>>
SP == " "

IsSpace(c) == c = SP \/ c = NL

DigitChar(d) ==
    CASE d = 0 -> "0" [] d = 1 -> "1" [] d = 2 -> "2" [] d = 3 -> "3"
      [] d = 4 -> "4" [] d = 5 -> "5" [] d = 6 -> "6" [] d = 7 -> "7"
      [] d = 8 -> "8" [] d = 9 -> "9"

IsDigit(c) == c \in {"0", "1", "2", "3", "4", "5", "6", "7", "8", "9"}

DigitVal(c) == CHOOSE d \in 0..9 : DigitChar(d) = c

RECURSIVE Pow10(_)
Pow10(n) == IF n = 0 THEN 1 ELSE 10 * Pow10(n - 1)

\* '%d' % n, for n >= 0
RECURSIVE StrInt(_)
StrInt(n) == IF n < 10 THEN <<DigitChar(n)>>
             ELSE StrInt(n \div 10) \o <<DigitChar(n % 10)>>

\* int(s) for a string of decimal digits
RECURSIVE IntStr(_)
IntStr(s) == IF s = <<>> THEN 0
             ELSE 10 * IntStr(SubSeq(s, 1, Len(s) - 1)) + DigitVal(s[Len(s)])

\* str.zfill(width)
RECURSIVE zfill(_, _)
zfill(s, width) == IF Len(s) >= width THEN s ELSE zfill(<<"0">> \o s, width)

\* ' '.join(list)
RECURSIVE Join(_)
Join(list) == IF list = <<>> THEN <<>>
              ELSE IF Len(list) = 1 THEN list[1]
              ELSE list[1] \o <<SP>> \o Join(Tail(list))

\* str.split(): the maximal runs of non-whitespace characters
RECURSIVE SplitFrom(_, _, _)
SplitFrom(s, i, cur) ==
    IF i > Len(s) THEN (IF cur = <<>> THEN <<>> ELSE <<cur>>)
    ELSE IF IsSpace(s[i])
         THEN (IF cur = <<>> THEN <<>> ELSE <<cur>>) \o SplitFrom(s, i + 1, <<>>)
         ELSE SplitFrom(s, i + 1, Append(cur, s[i]))

split(s) == SplitFrom(s, 1, <<>>)

----------------------------------------------------------------------------
(* Numbers as text.  A float is modelled by a natural number: every value   *)
(* handed to rlc_instance here is one, and so is every value float() reads  *)
(* back from a '%.6e' rendering of one.                                     *)

\* '%.6e' % v : one digit, '.', six digits, 'e+', the exponent on two digits
\* at least; the mantissa is rounded to nearest, ties to even.
FormatE(v) ==
    LET e == Len(StrInt(v)) - 1
        p == IF e > 6 THEN Pow10(e - 6) ELSE 1
        q == v \div p
        r == v % p
        up == IF 2 * r > p \/ (2 * r = p /\ q % 2 = 1) THEN 1 ELSE 0
        m0 == IF e <= 6 THEN v * Pow10(6 - e) ELSE q + up
        carry == m0 >= Pow10(7)
        m == IF carry THEN m0 \div 10 ELSE m0
        ex == IF carry THEN e + 1 ELSE e
        d == zfill(StrInt(m), 7)
    IN  <<d[1], ".">> \o SubSeq(d, 2, 7) \o <<"e", "+">> \o zfill(StrInt(ex), 2)

AllDigits(s) == s # <<>> /\ \A i \in 1..Len(s) : IsDigit(s[i])

\* the text shapes float() is asked to read here: a '%.6e' rendering, or a
\* plain run of digits; float() of anything else used here raises ValueError
IsFormatE(s) ==
    /\ Len(s) >= 12
    /\ IsDigit(s[1]) /\ s[2] = "."
    /\ AllDigits(SubSeq(s, 3, 8))
    /\ s[9] = "e" /\ s[10] = "+"
    /\ AllDigits(SubSeq(s, 11, Len(s)))

IsFloatText(s) == AllDigits(s) \/ IsFormatE(s)

float(s) ==
    IF AllDigits(s) THEN IntStr(s)
    ELSE LET m == IntStr(<<s[1]>> \o SubSeq(s, 3, 8))
             e == IntStr(SubSeq(s, 11, Len(s)))
         IN  IF e >= 6 THEN m * Pow10(e - 6) ELSE m \div Pow10(6 - e)

----------------------------------------------------------------------------
(* Objects.  An argument of a call is a reference to an object of the heap  *)
(* or a str.                                                                *)

\* the root NetList, the SubCircuit objects the client has constructed, and
\* the SubCircuit() a round trip loads into
Root == 0
SubIds == {1, 2}
Fresh == 3
Scopes == {Root} \cup SubIds
\* the scopes the client builds in; sub-circuit 2 is a leaf it registers and
\* instantiates
BuildScopes == {Root, 1}

Ref(o) == [tag |-> "obj", id |-> o]
Str(s) == [tag |-> "str", val |-> s]

\* outcomes of a call
OK == "ok"
TypeError == "TypeError"
InvalidDeviceType == "ValueError: device must be in ['R', 'L', 'C']"
UnregisteredSubcircuit == "ValueError: does not exist as a subcircuit"
ClosedDestination == "ValueError: Write operation on closed file."
FloatValueError == "ValueError: could not convert string to float"
AttributeError == "AttributeError"
KeyError == "KeyError"
IndexError == "IndexError"
RecursionError == "RecursionError"

RLC == {<<"R">>, <<"L">>, <<"C">>}

\* NetList.__init__
NetList ==
    [class |-> "NetList",
     subcircuits |-> <<>>,
     devices |-> <<>>,
     count_device_dict |-> (<<"R">> :> 0) @@ (<<"C">> :> 0) @@ (<<"L">> :> 0),
     count_device_total |-> 0,
     name |-> <<>>, ext_nodes |-> <<>>, suffix |-> <<>>, comment |-> <<>>,
     has_filepath |-> FALSE]

\* SubCircuit.__init__
SubCircuit(name, external_nodes, suffix, comment) ==
    [NetList EXCEPT !.class = "SubCircuit",
                    !.name = name,
                    !.ext_nodes = external_nodes,
                    !.suffix = suffix,
                    !.comment = comment]

\* isinstance(x, SubCircuit)
IsSubCircuit(h, x) == x.tag = "obj" /\ h[x.id].class = "SubCircuit"

\* NetList.get_subcircuit_names
get_subcircuit_names(h, s) ==
    [i \in 1..Len(h[s].subcircuits) |-> h[h[s].subcircuits[i]].name]

InSeq(x, seq) == \E i \in 1..Len(seq) : seq[i] = x

\* d[key] = value
SetItem(d, key, value) ==
    IF key \in DOMAIN d THEN [d EXCEPT ![key] = value] ELSE (key :> value) @@ d

----------------------------------------------------------------------------
(* The construction API.  Each operator takes the heap and the arguments of *)
(* the call and yields the heap after the call and the call's outcome.      *)

\* add_subcircuit forgetting the counter of the name it registers
add_subcircuit_no_key(h, s, x) ==
    IF IsSubCircuit(h, x)
    THEN [heap |-> [h EXCEPT ![s].subcircuits = Append(@, x.id)],
          status |-> OK]
    ELSE [heap |-> h, status |-> TypeError]

\* NetList.add_subcircuit
add_subcircuit(h, s, x) ==
    IF IsSubCircuit(h, x)
    THEN [heap |-> [h EXCEPT
                      ![s].subcircuits = Append(@, x.id),
                      ![s].count_device_dict = SetItem(@, h[x.id].name, 0)],
          status |-> OK]
    ELSE [heap |-> h, status |-> TypeError]

\* the line rlc_instance renders
rlc_line(device, count, nodes, value) ==
    device \o StrInt(count) \o <<SP>> \o Join(nodes) \o <<SP>> \o FormatE(value)
        \o _END_OF_LINE

\* rlc_instance counting the total in the root netlist, for the whole tree
rlc_instance_global_total(h, s, device, nodes, value) ==
    IF device \in RLC
    THEN LET count == h[s].count_device_dict[device] + 1
         IN  [heap |-> [h EXCEPT
                          ![Root].count_device_total = @ + 1,
                          ![s].count_device_dict[device] = count,
                          ![s].devices =
                              Append(@, rlc_line(device, count, nodes, value))],
              status |-> OK]
    ELSE [heap |-> h, status |-> InvalidDeviceType]

\* rlc_instance forgetting the total
rlc_instance_no_total(h, s, device, nodes, value) ==
    IF device \in RLC
    THEN LET count == h[s].count_device_dict[device] + 1
         IN  [heap |-> [h EXCEPT
                          ![s].count_device_dict[device] = count,
                          ![s].devices =
                              Append(@, rlc_line(device, count, nodes, value))],
              status |-> OK]
    ELSE [heap |-> h, status |-> InvalidDeviceType]

\* rlc_instance testing the label after it has counted the instance
rlc_instance_late_test(h, s, device, nodes, value) ==
    IF device \in RLC
    THEN LET count == h[s].count_device_dict[device] + 1
         IN  [heap |-> [h EXCEPT
                          ![s].count_device_total = @ + 1,
                          ![s].count_device_dict[device] = count,
                          ![s].devices =
                              Append(@, rlc_line(device, count, nodes, value))],
              status |-> OK]
    ELSE [heap |-> [h EXCEPT ![s].count_device_total = @ + 1],
          status |-> InvalidDeviceType]

\* NetList.rlc_instance
rlc_instance(h, s, device, nodes, value) ==
    IF device \in RLC
    THEN LET count == h[s].count_device_dict[device] + 1
         IN  [heap |-> [h EXCEPT
                          ![s].count_device_total = @ + 1,
                          ![s].count_device_dict[device] = count,
                          ![s].devices =
                              Append(@, rlc_line(device, count, nodes, value))],
              status |-> OK]
    ELSE [heap |-> h, status |-> InvalidDeviceType]

\* the line subcircuit_instance renders
subcircuit_line(suffix, count, nodes, name) ==
    <<"X", "_">> \o suffix \o <<"_">> \o zfill(StrInt(count), _ZFILL_WIDTH)
        \o <<SP>> \o Join(nodes) \o <<SP>> \o name \o _END_OF_LINE

\* subcircuit_instance testing the name after it has counted the instance
subcircuit_instance_late_test(h, s, x, nodes) ==
    IF ~IsSubCircuit(h, x)
    THEN [heap |-> h, status |-> AttributeError]
    ELSE LET name == h[x.id].name IN
         IF InSeq(name, get_subcircuit_names(h, s))
         THEN LET count == h[s].count_device_dict[name] + 1
              IN  [heap |-> [h EXCEPT
                               ![s].count_device_total = @ + 1,
                               ![s].count_device_dict[name] = count,
                               ![s].devices = Append(@,
                                   subcircuit_line(h[x.id].suffix, count,
                                                   nodes, name))],
                   status |-> OK]
         ELSE [heap |-> [h EXCEPT ![s].count_device_total = @ + 1],
               status |-> UnregisteredSubcircuit]

\* NetList.subcircuit_instance
subcircuit_instance(h, s, x, nodes) ==
    IF ~IsSubCircuit(h, x)
    THEN \* a str or a NetList has no attribute 'name'
         [heap |-> h, status |-> AttributeError]
    ELSE LET name == h[x.id].name IN
         IF InSeq(name, get_subcircuit_names(h, s))
         THEN IF name \notin DOMAIN h[s].count_device_dict
              THEN \* the total is incremented before the dict lookup fails
                   [heap |-> [h EXCEPT ![s].count_device_total = @ + 1],
                    status |-> KeyError]
              ELSE LET count == h[s].count_device_dict[name] + 1
                   IN  [heap |-> [h EXCEPT
                                    ![s].count_device_total = @ + 1,
                                    ![s].count_device_dict[name] = count,
                                    ![s].devices = Append(@,
                                        subcircuit_line(h[x.id].suffix, count,
                                                        nodes, name))],
                        status |-> OK]
         ELSE [heap |-> h, status |-> UnregisteredSubcircuit]

----------------------------------------------------------------------------
(* The writer.  A stream is "open", "closed" or "other" (not a text        *)
(* stream); what a call writes is the sequence of lines it hands to        *)
(* f.write, in order.                                                      *)

STARS == <<"*", "*", "*">>
DOT_SUBCIRCUIT == <<".", "S", "U", "B", "C", "I", "R", "C", "U", "I", "T">>
DOT_ENDS == <<".", "E", "N", "D", "S">>
TXT_SUBCIRCUITS == <<"s", "u", "b", "c", "i", "r", "c", "u", "i", "t", "s">>
TXT_INSTANCES == <<"I", "n", "s", "t", "a", "n", "c", "e", "s">>
TXT_INNER ==
    <<"I", "n", "n", "e", "r", " ", "s", "u", "b", "c", "i", "r", "c", "u", "i", "t">>
TXT_LOADED ==
    <<"s", "u", "b", "c", "i", "r", "c", "u", "i", "t", " ", "l", "o", "a", "d", "e", "d", " ", "f", "r", "o", "m", " ", ":", " ">>
TXT_GENERATED ==
    <<"G", "e", "n", "e", "r", "a", "t", "e", "d", " ", "f", "o", "r", ":", " ", "S", "P", "I", "C", "E">>
TXT_BY ==
    <<"B", "y", ":", " ", "s", "i", "m", "u", "l", "a", "t", "i", "o", "n", ".", "s", "p", "i", "c", "e", " ", "p", "y", "t", "h", "o", "n", " ", "p", "a", "c", "k", "a", "g", "e">>
TXT_ON == <<"O", "n", ":", " ">>
TXT_AT == <<"A", "t", ":", " ">>

\* what strftime gives for today's date and the time now, and the path a
\* sub-circuit was loaded from: text without whitespace, the same at each call
DATE_TODAY == <<"0", "1", "/", "0", "1", "/", "2", "0", "0", "0">>
TIME_NOW == <<"0", "0", ":", "0", "0", ":", "0", "0">>
FILEPATH == <<"s", ".", "c", "i", "r">>

\* NetList._write_comment on a text stream
_write_comment(comment) ==
    IF Len(comment) > 0
    THEN <<STARS \o <<SP>> \o comment \o _END_OF_LINE>>
    ELSE <<>>

\* SubCircuit._update_start_line
start_line(h, o) ==
    DOT_SUBCIRCUIT \o <<SP>> \o h[o].name \o <<SP>> \o Join(h[o].ext_nodes)
        \o _END_OF_LINE

\* SubCircuit._update_end_line
end_line(h, o) == DOT_ENDS \o <<SP>> \o h[o].name \o _END_OF_LINE

\* depth at which the interpreter gives up a recursion that cannot end: a
\* chain of registrations longer than the number of objects repeats one
RecursionLimit == Cardinality(SubIds) + 1

\* SubCircuit._write_subcircuit: the lines written and the outcome
RECURSIVE _write_subcircuit(_, _, _, _)
RECURSIVE write_nested(_, _, _, _, _)
write_nested(h, o, i, f, depth) ==
    IF i > Len(h[o].subcircuits) THEN [lines |-> <<>>, status |-> OK]
    ELSE LET sub == h[o].subcircuits[i]
             head == _write_comment(<<SP>>) \o _write_comment(TXT_INNER)
                     \o (IF h[sub].has_filepath
                         THEN _write_comment(TXT_LOADED \o FILEPATH) ELSE <<>>)
             one == _write_subcircuit(h, sub, f, depth + 1)
         IN  IF one.status # OK
             THEN [lines |-> head \o one.lines, status |-> one.status]
             ELSE LET rest == write_nested(h, o, i + 1, f, depth)
                  IN  [lines |-> head \o one.lines \o rest.lines,
                       status |-> rest.status]

\* _write_subcircuit testing f.closed after it has written its first lines
_write_subcircuit_late_closed_test(h, o, f, depth) ==
    IF f = "other" THEN [lines |-> <<>>, status |-> TypeError]
    ELSE IF f = "closed"
    THEN [lines |-> _write_comment(h[o].comment) \o <<start_line(h, o)>>,
          status |-> ClosedDestination]
    ELSE IF depth > RecursionLimit THEN [lines |-> <<>>, status |-> RecursionError]
    ELSE LET own == _write_comment(h[o].comment) \o <<start_line(h, o)>>
                    \o h[o].devices
             nested == write_nested(h, o, 1, f, depth)
         IN  IF nested.status # OK
             THEN [lines |-> own \o nested.lines, status |-> nested.status]
             ELSE [lines |-> own \o nested.lines \o <<end_line(h, o)>>,
                   status |-> OK]

\* _write_subcircuit writing the nested definitions before its own devices
_write_subcircuit_nested_first(h, o, f, depth) ==
    IF f = "other" THEN [lines |-> <<>>, status |-> TypeError]
    ELSE IF f = "closed" THEN [lines |-> <<>>, status |-> ClosedDestination]
    ELSE IF depth > RecursionLimit THEN [lines |-> <<>>, status |-> RecursionError]
    ELSE LET own == _write_comment(h[o].comment) \o <<start_line(h, o)>>
             nested == write_nested(h, o, 1, f, depth)
         IN  IF nested.status # OK
             THEN [lines |-> own \o nested.lines, status |-> nested.status]
             ELSE [lines |-> own \o nested.lines \o h[o].devices
                             \o <<end_line(h, o)>>,
                   status |-> OK]

_write_subcircuit(h, o, f, depth) ==
    IF f = "other" THEN [lines |-> <<>>, status |-> TypeError]
    ELSE IF f = "closed" THEN [lines |-> <<>>, status |-> ClosedDestination]
    ELSE IF depth > RecursionLimit THEN [lines |-> <<>>, status |-> RecursionError]
    ELSE LET own == _write_comment(h[o].comment) \o <<start_line(h, o)>>
                    \o h[o].devices
             nested == write_nested(h, o, 1, f, depth)
         IN  IF nested.status # OK
             THEN [lines |-> own \o nested.lines, status |-> nested.status]
             ELSE [lines |-> own \o nested.lines \o <<end_line(h, o)>>,
                   status |-> OK]

\* NetList._write_header: the file is opened with 'w'
_write_header(h, s, old) ==
    [lines |-> _write_comment(TXT_GENERATED) \o _write_comment(TXT_BY)
               \o _write_comment(TXT_ON \o DATE_TODAY)
               \o _write_comment(TXT_AT \o TIME_NOW)
               \o _write_comment(<<SP>>),
     status |-> OK]

\* NetList._write_subcircuits: the file is opened with 'a+'
RECURSIVE write_each(_, _, _)
write_each(h, s, i) ==
    IF i > Len(h[s].subcircuits) THEN [lines |-> <<>>, status |-> OK]
    ELSE LET one == _write_subcircuit(h, h[s].subcircuits[i], "open", 1)
         IN  IF one.status # OK THEN one
             ELSE LET rest == write_each(h, s, i + 1)
                  IN  [lines |-> one.lines \o rest.lines, status |-> rest.status]

_write_subcircuits(h, s, old) ==
    LET all == write_each(h, s, 1)
    IN  [lines |-> old \o _write_comment(TXT_SUBCIRCUITS) \o all.lines,
         status |-> all.status]

\* NetList._write_instances: the file is opened with 'a+'
_write_instances(h, s, old) ==
    [lines |-> old \o _write_comment(TXT_INSTANCES) \o h[s].devices,
     status |-> OK]

\* write_in_fpath writing the instances before the sub-circuits
write_in_fpath_swapped == <<"header", "instances", "subcircuits">>

\* NetList.write_in_fpath: the passes, in the order of the calls
write_in_fpath == <<"header", "subcircuits", "instances">>

WritePass(pass, h, s, old) ==
    CASE pass = "header" -> _write_header(h, s, old)
      [] pass = "subcircuits" -> _write_subcircuits(h, s, old)
      [] pass = "instances" -> _write_instances(h, s, old)

----------------------------------------------------------------------------
(* The parser.  A load is a frame: the object being loaded, the lines of    *)
(* the file, the number of lines read, the line last read, the counter k    *)
(* and the line numbers reported so far.                                    *)

\* f.readline(): the next line, or the empty str at end of file
readline(lines, pos) == IF pos < Len(lines) THEN lines[pos + 1] ELSE <<>>

NoLoad ==
    [active |-> FALSE, self |-> 0, lines |-> <<>>, pos |-> 0, line |-> <<>>,
     k |-> 0, reports |-> <<>>]

\* SubCircuit.load_from_file up to the loop: the heap and the frame after the
\* first line is read, and the outcome ("running" when the loop is entered)
load_from_file(h, t, lines, external_nodes, name, suffix) ==
    LET h1 == [h EXCEPT ![t].has_filepath = TRUE,
                        ![t].ext_nodes = external_nodes,
                        ![t].name = name,
                        ![t].suffix = suffix]
        line == readline(lines, 0)
        split_line == split(line)
        frame == [active |-> TRUE, self |-> t, lines |-> lines, pos |-> 1,
                  line |-> line, k |-> 0, reports |-> <<>>]
    IN  IF name = <<>> /\ Len(split_line) < 2
        THEN [heap |-> h1, frame |-> frame, status |-> IndexError]
        ELSE LET h2 == IF name = <<>>
                       THEN [h1 EXCEPT ![t].name = split_line[2]] ELSE h1
                 h3 == IF h2[t].ext_nodes = <<>>
                       THEN [h2 EXCEPT ![t].ext_nodes =
                                SubSeq(split_line, 3, Len(split_line))]
                       ELSE h2
             IN  [heap |-> h3, frame |-> frame,
                  status |-> IF line = <<>> THEN OK ELSE "running"]

\* the test that ends the loop on a directive line
is_end_directive(h, t, split_line) == split_line[1] = DOT_ENDS

\* load_from_file giving up on a line it cannot classify
load_line_abort(h, fr, line, split_line) ==
    LET t == fr.self
        k == fr.k + 1
        n == Len(split_line)
        frame == [fr EXCEPT !.k = k, !.pos = fr.pos + 1, !.line = line]
    IN  IF n = 0
        THEN [heap |-> h, frame |-> frame, status |-> IndexError]
        ELSE LET first_char == split_line[1][1] IN
             IF <<first_char>> \in RLC
             THEN IF ~IsFloatText(split_line[n])
                  THEN [heap |-> h, frame |-> frame, status |-> FloatValueError]
                  ELSE CHOOSE out \in
                          {[heap |-> r.heap, frame |-> frame,
                            status |-> IF r.status = OK THEN "running"
                                       ELSE r.status] :
                           r \in {rlc_instance(h, t, <<first_char>>,
                                                SubSeq(split_line, 2, n - 1),
                                                value) :
                                  value \in {float(split_line[n])}}} : TRUE
             ELSE IF first_char = "X"
             THEN LET r == subcircuit_instance(h, t, Str(split_line[n]),
                                               SubSeq(split_line, 2, n - 1))
                  IN  [heap |-> r.heap, frame |-> frame,
                       status |-> IF r.status = OK THEN "running" ELSE r.status]
             ELSE IF first_char = "."
             THEN [heap |-> h, frame |-> frame,
                   status |-> IF is_end_directive(h, t, split_line)
                              THEN OK ELSE "running"]
             ELSE [heap |-> h,
                   frame |-> [frame EXCEPT !.reports = Append(@, k)],
                   status |-> "UnrecognizedLine"]

\* load_from_file going round its loop again, without reading a line, after
\* a directive that is not the end directive
load_line_no_read(h, fr, line, split_line) ==
    LET t == fr.self
        k == fr.k + 1
        n == Len(split_line)
        frame == [fr EXCEPT !.k = k, !.pos = fr.pos + 1, !.line = line]
    IN  IF n = 0
        THEN [heap |-> h, frame |-> frame, status |-> IndexError]
        ELSE LET first_char == split_line[1][1] IN
             IF <<first_char>> \in RLC
             THEN IF ~IsFloatText(split_line[n])
                  THEN [heap |-> h, frame |-> frame, status |-> FloatValueError]
                  ELSE CHOOSE out \in
                          {[heap |-> r.heap, frame |-> frame,
                            status |-> IF r.status = OK THEN "running"
                                       ELSE r.status] :
                           r \in {rlc_instance(h, t, <<first_char>>,
                                                SubSeq(split_line, 2, n - 1),
                                                value) :
                                  value \in {float(split_line[n])}}} : TRUE
             ELSE IF first_char = "X"
             THEN LET r == subcircuit_instance(h, t, Str(split_line[n]),
                                               SubSeq(split_line, 2, n - 1))
                  IN  [heap |-> r.heap, frame |-> frame,
                       status |-> IF r.status = OK THEN "running" ELSE r.status]
             ELSE IF first_char = "."
             THEN IF is_end_directive(h, t, split_line)
                  THEN [heap |-> h, frame |-> frame, status |-> OK]
                  ELSE [heap |-> h, frame |-> fr, status |-> "running"]
             ELSE [heap |-> h,
                   frame |-> [frame EXCEPT !.reports = Append(@, k)],
                   status |-> "running"]

\* the body of the while loop of load_from_file after the readline and the
\* split, the loop test after it included: the heap and the frame after it,
\* and the outcome.  The value float() reads is computed once, as the code
\* computes it, before rlc_instance is called with it.
load_line(h, fr, line, split_line) ==
    LET t == fr.self
        k == fr.k + 1
        n == Len(split_line)
        frame == [fr EXCEPT !.k = k, !.pos = fr.pos + 1, !.line = line]
    IN  IF n = 0
        THEN [heap |-> h, frame |-> frame, status |-> IndexError]
        ELSE LET first_char == split_line[1][1] IN
             IF <<first_char>> \in RLC
             THEN IF ~IsFloatText(split_line[n])
                  THEN [heap |-> h, frame |-> frame, status |-> FloatValueError]
                  ELSE CHOOSE out \in
                          {[heap |-> r.heap, frame |-> frame,
                            status |-> IF r.status = OK THEN "running"
                                       ELSE r.status] :
                           r \in {rlc_instance(h, t, <<first_char>>,
                                                SubSeq(split_line, 2, n - 1),
                                                value) :
                                  value \in {float(split_line[n])}}} : TRUE
             ELSE IF first_char = "X"
             THEN LET r == subcircuit_instance(h, t, Str(split_line[n]),
                                               SubSeq(split_line, 2, n - 1))
                  IN  [heap |-> r.heap, frame |-> frame,
                       status |-> IF r.status = OK THEN "running" ELSE r.status]
             ELSE IF first_char = "."
             THEN [heap |-> h, frame |-> frame,
                   status |-> IF is_end_directive(h, t, split_line)
                              THEN OK ELSE "running"]
             ELSE [heap |-> h,
                   frame |-> [frame EXCEPT !.reports = Append(@, k)],
                   status |-> "running"]

\* one iteration of the while loop of load_from_file: the readline, the
\* split, computed once, and the body
load_iteration(h, fr) ==
    LET line == readline(fr.lines, fr.pos)
    IN  CHOOSE out \in {load_line(h, fr, line, split_line) :
                           split_line \in {split(line)}} : TRUE

----------------------------------------------------------------------------
(* Arguments of the calls *)

N1 == <<"n", "1">>
N2 == <<"n", "2">>
NodeLists == {<<N1, N2>>}
Values == {1000, 12345678}
Devices == RLC \cup {<<"Q">>}
SubNames == {<<"A">>, <<"B">>, <<"R">>}
AMP == <<"a", "m", "p">>
SUFFIX == <<"S">>
Streams == {"open", "closed", "other"}

\* the arguments a call takes for a sub-circuit: any object of the heap
Objects == {Ref(o) : o \in Scopes}

----------------------------------------------------------------------------
(* State machine *)

Idle == ~ld.active /\ wpc = 0

NoResult == [op |-> "none", self |-> 0, arg |-> <<>>, status |-> OK]

InitHeap(names, comments) ==
    [o \in Scopes \cup {Fresh} |->
        IF o = Root THEN NetList
        ELSE IF o = Fresh THEN SubCircuit(<<>>, <<>>, <<>>, <<>>)
        ELSE SubCircuit(names[o], <<N1, N2>>, SUFFIX, comments[o])]

InitRest ==
    /\ wpc = 0
    /\ ld = NoLoad
    /\ written = -1
    /\ result = NoResult
    /\ ncalls = [s \in Scopes \cup {Fresh} |-> [d \in RLC |-> 0]]
    /\ ops = 0

Init ==
    /\ \E names \in [SubIds -> SubNames] :
          /\ names[1] = <<"A">>
          /\ heap = InitHeap(names, [o \in SubIds |-> IF o = 1 THEN <<>>
                                                     ELSE AMP])
    /\ file = <<>>
    /\ InitRest

AddSubcircuit(s, x) ==
    /\ Idle /\ ops < MaxOps
    /\ LET r == add_subcircuit(heap, s, x)
       IN  /\ heap' = r.heap
           /\ result' = [op |-> "add_subcircuit", self |-> s, arg |-> x,
                         status |-> r.status]
    /\ ops' = ops + 1
    /\ UNCHANGED <<file, wpc, ld, written, ncalls>>

RlcInstance(s, device, nodes, value) ==
    /\ Idle /\ ops < MaxOps
    /\ LET r == rlc_instance(heap, s, device, nodes, value)
       IN  /\ heap' = r.heap
           /\ result' = [op |-> "rlc_instance", self |-> s, arg |-> device,
                         status |-> r.status]
           /\ ncalls' = IF r.status = OK
                        THEN [ncalls EXCEPT ![s][device] = @ + 1] ELSE ncalls
    /\ ops' = ops + 1
    /\ UNCHANGED <<file, wpc, ld, written>>

SubcircuitInstance(s, x, nodes) ==
    /\ Idle /\ ops < MaxOps
    /\ LET r == subcircuit_instance(heap, s, x, nodes)
       IN  /\ heap' = r.heap
           /\ result' = [op |-> "subcircuit_instance", self |-> s, arg |-> x,
                         status |-> r.status]
    /\ ops' = ops + 1
    /\ UNCHANGED <<file, wpc, ld, written, ncalls>>

\* one pass of write_in_fpath on the root netlist; a pass that raises ends
\* the call
WritePassAt(i) ==
    LET r == WritePass(write_in_fpath[i], heap, Root, file)
    IN  /\ file' = r.lines
        /\ wpc' = IF r.status = OK /\ i < Len(write_in_fpath) THEN i ELSE 0
        /\ result' = [op |-> "write_in_fpath", self |-> Root, arg |-> i,
                      status |-> IF r.status = OK /\ i < Len(write_in_fpath)
                                 THEN "running" ELSE r.status]
        /\ UNCHANGED <<heap, ld, written, ncalls>>

WriteInFpath ==
    /\ Idle /\ ops < MaxOps
    /\ WritePassAt(1)
    /\ ops' = ops + 1

WriteNextPass ==
    /\ wpc > 0
    /\ WritePassAt(wpc + 1)
    /\ UNCHANGED ops

\* o._write_subcircuit(f) called on a stream f of the file: just opened for
\* writing by the caller when it is open, and else at the end of what the
\* file holds, where anything the call hands to f.write would go
WriteSubcircuit(o, f) ==
    /\ Idle /\ ops < MaxOps
    /\ LET r == _write_subcircuit(heap, o, f, 1)
       IN  /\ file' = IF f = "open" THEN r.lines ELSE file \o r.lines
           /\ result' = [op |-> "_write_subcircuit", self |-> o, arg |-> f,
                         status |-> r.status]
    /\ ops' = ops + 1
    /\ UNCHANGED <<heap, wpc, ld, written, ncalls>>

LoadResult(t, arg, fr, status) ==
    [op |-> "load_from_file", self |-> t, arg |-> arg, status |-> status,
     k |-> fr.k, pos |-> fr.pos, line |-> fr.line, reports |-> fr.reports]

\* t.load_from_file(path, external_nodes, name, suffix), up to the loop, on the
\* file that holds the text of sub-circuit w (-1: any text)
LoadFromFile(h, t, external_nodes, name, suffix, w) ==
    /\ Idle
    /\ written' = w
    /\ LET r == load_from_file(h, t, file, external_nodes, name, suffix)
       IN  /\ heap' = r.heap
           /\ ld' = IF r.status = "running" THEN r.frame ELSE NoLoad
           /\ result' = LoadResult(t, name, r.frame, r.status)
    /\ ops' = ops + 1
    /\ UNCHANGED <<file, wpc, ncalls>>

\* the round trip: a new SubCircuit() loads the file that _write_subcircuit
\* has just written for one sub-circuit
LoadWritten ==
    /\ ops < MaxOps
    /\ result.op = "_write_subcircuit" /\ result.arg = "open"
    /\ result.status = OK
    /\ LoadFromFile([heap EXCEPT ![Fresh] = SubCircuit(<<>>, <<>>, <<>>, <<>>)],
                    Fresh, <<>>, <<>>, <<>>, result.self)

\* one iteration of the loop of the load in progress
LoadStep ==
    /\ ld.active
    /\ \E r \in {load_iteration(heap, ld)} :
       LET t == ld.self
           dev == r.heap[t].devices
           made == Len(dev) > Len(heap[t].devices)
                   /\ <<dev[Len(dev)][1]>> \in RLC
       IN  /\ heap' = r.heap
           /\ ld' = IF r.status = "running" THEN r.frame ELSE NoLoad
           /\ result' = LoadResult(t, result.arg, r.frame, r.status)
           /\ ncalls' = IF made
                        THEN [ncalls EXCEPT ![t][<<dev[Len(dev)][1]>>] = @ + 1]
                        ELSE ncalls
    /\ UNCHANGED <<file, wpc, written, ops>>

Next ==
    \/ \E s \in Scopes, x \in Objects : AddSubcircuit(s, x)
    \/ \E s \in Scopes, device \in Devices, nodes \in NodeLists :
          RlcInstance(s, device, nodes, 1000)
    \/ \E s \in Scopes, x \in Objects, nodes \in NodeLists :
          SubcircuitInstance(s, x, nodes)

Spec == Init /\ [][Next]_vars

\* building, then writing and loading back what was written
NextWrite ==
    \/ \E s \in BuildScopes, x \in {Ref(o) : o \in SubIds} : AddSubcircuit(s, x)
    \/ \E s \in BuildScopes, nodes \in NodeLists, value \in Values :
          RlcInstance(s, <<"R">>, nodes, value)
    \/ \E s \in BuildScopes, x \in {Ref(o) : o \in SubIds}, nodes \in NodeLists :
          SubcircuitInstance(s, x, nodes)
    \/ WriteInFpath
    \/ WriteNextPass
    \/ \E o \in SubIds, f \in Streams : WriteSubcircuit(o, f)
    \/ LoadWritten
    \/ LoadStep

SpecWrite == Init /\ [][NextWrite]_vars

----------------------------------------------------------------------------
(* Loading a file that holds any text *)

STR_A == <<"A">>
STR_B == <<"B">>

\* the lines a file is made of
HEADER_A == DOT_SUBCIRCUIT \o <<SP>> \o STR_A \o <<SP>> \o Join(<<N1, N2>>)
                \o _END_OF_LINE
R_LINE == rlc_line(<<"R">>, 1, <<N1, N2>>, 1000)
X_LINE == subcircuit_line(SUFFIX, 1, <<N1, N2>>, STR_B)
ENDS_A == DOT_ENDS \o <<SP>> \o STR_A \o _END_OF_LINE
ENDS_B == DOT_ENDS \o <<SP>> \o STR_B \o _END_OF_LINE
BLANK == _END_OF_LINE
COMMENT == STARS \o <<SP>> \o AMP \o _END_OF_LINE

FileLines == {HEADER_A, R_LINE, X_LINE, ENDS_A, ENDS_B, BLANK, COMMENT}

\* the line a file starts with, which load reads before its loop
FirstLines == {HEADER_A, BLANK}

\* the empty file, and the files made of a first line and of up to MaxLines
\* lines after it
Files ==
    {<<>>} \cup {<<first>> \o body :
                    first \in FirstLines,
                    body \in UNION {[1..n -> FileLines] : n \in 0..MaxLines}}

InitLoad ==
    /\ \E names \in [SubIds -> {STR_A, STR_B}] :
          /\ names[1] = STR_A
          /\ heap = InitHeap(names, [o \in SubIds |-> <<>>])
    /\ file \in Files
    /\ InitRest

\* the sub-circuit that loads, and the names it is given
Loader == 1

LoadInput(name) ==
    /\ ops < MaxLoadOps
    /\ LoadFromFile(heap, Loader, <<>>, name, <<>>, -1)

NextLoad ==
    \/ \E x \in {Ref(o) : o \in SubIds} :
          ops < MaxLoadOps /\ AddSubcircuit(Loader, x)
    \/ \E name \in {<<>>, STR_A} : LoadInput(name)
    \/ LoadStep

SpecLoad == InitLoad /\ [][NextLoad]_vars

\* one load of the file, by a sub-circuit that has registered nothing
NextLoadOnce ==
    \/ \E name \in {<<>>, STR_A} : ops = 0 /\ LoadInput(name)
    \/ LoadStep

\* load_from_file runs its loop to the end once called: a load in progress
\* takes its next iteration
SpecLoadFair == InitLoad /\ [][NextLoadOnce]_vars /\ WF_vars(LoadStep)

----------------------------------------------------------------------------
(* Properties of the construction API *)

Count(d, key) == IF key \in DOMAIN d THEN d[key] ELSE 0

SumRLC(f) == f[<<"R">>] + f[<<"L">>] + f[<<"C">>]

\* C1: in a scope where only rlc_instance has been called with success, N
\* times in all, the total count is N and the count of each of R, L and C is
\* the number of successful calls made with that label.
C1_RlcCounts ==
    \A s \in Scopes :
        heap[s].subcircuits = <<>> =>
            /\ heap[s].count_device_total = SumRLC(ncalls[s])
            /\ \A d \in RLC : heap[s].count_device_dict[d] = ncalls[s][d]

C1_Witness ==
    \E s \in Scopes :
        /\ heap[s].subcircuits = <<>>
        /\ ncalls[s][<<"R">>] = 2 /\ ncalls[s][<<"L">>] = 1 /\ ncalls[s][<<"C">>] = 1
        /\ heap[s].count_device_total = 4

\* the instance lines of a scope that name a given sub-circuit, in order
RECURSIVE XLinesOf(_, _)
XLinesOf(devices, name) ==
    IF devices = <<>> THEN <<>>
    ELSE LET l == devices[1]
             tokens == split(l)
             rest == XLinesOf(Tail(devices), name)
         IN  IF l[1] = "X" /\ tokens[Len(tokens)] = name
             THEN <<l>> \o rest ELSE rest

\* the index an instance line carries: the digits that end its first word
XIndex(l) ==
    LET w == split(l)[1]
    IN  IntStr(SubSeq(w, Len(w) - _ZFILL_WIDTH + 1, Len(w)))

\* C2: in every scope, the instance lines of one sub-circuit name carry the
\* indices 1, 2, 3, ... in creation order, so no two of them carry the same.
C2_IndicesSequential ==
    \A s \in Scopes : \A name \in SubNames :
        LET xs == XLinesOf(heap[s].devices, name)
        IN  \A i \in 1..Len(xs) : XIndex(xs[i]) = i

\* C3: the sub-circuits registered in a scope have pairwise distinct names
\* (a second registration of a name is refused and changes nothing).
C3_UniqueNames ==
    \A s \in Scopes :
        LET names == get_subcircuit_names(heap, s)
        IN  \A i, j \in 1..Len(names) : i # j => names[i] # names[j]

\* a step that is a call of the given operation
IsCall(op) == ops' = ops + 1 /\ result'.op = op

\* C4: subcircuit_instance for a sub-circuit whose name is not registered in
\* the scope fails with UnregisteredSubcircuit and changes no count, no total
\* and no devices list.
C4_UnregisteredFails ==
    [][(/\ IsCall("subcircuit_instance")
        /\ IsSubCircuit(heap, result'.arg)
        /\ ~InSeq(heap[result'.arg.id].name,
                  get_subcircuit_names(heap, result'.self)))
       => (result'.status = UnregisteredSubcircuit /\ heap' = heap)]_vars

C4_Witness ==
    /\ result.op = "subcircuit_instance"
    /\ result.status = UnregisteredSubcircuit
    /\ heap[result.self].count_device_total > 0
    /\ heap[result.self].subcircuits # <<>>

\* C10: rlc_instance with a label outside R, L, C fails with
\* InvalidDeviceType, which the caller gets, and changes no count, no total
\* and no devices list; with a label among R, L, C it does not fail.
C10_InvalidDeviceType ==
    [][IsCall("rlc_instance")
       => IF result'.arg \in RLC
          THEN result'.status = OK
          ELSE result'.status = InvalidDeviceType /\ heap' = heap]_vars

C10_Witness ==
    /\ result.op = "rlc_instance"
    /\ result.status = InvalidDeviceType
    /\ heap[result.self].count_device_total > 0

----------------------------------------------------------------------------
(* Properties of the writer and of the parser *)

WordsOf(l) == split(l)

IsDefLine(l) ==
    WordsOf(l) # <<>> /\ WordsOf(l)[1] \in {DOT_SUBCIRCUIT, DOT_ENDS}

IsDeviceLine(l) == l[1] \in {"R", "L", "C", "X"}

\* the number of sub-circuit blocks open at line i of the file
Depth(i) ==
    Cardinality({j \in 1..(i - 1) : WordsOf(file[j])[1] = DOT_SUBCIRCUIT})
    - Cardinality({j \in 1..(i - 1) : WordsOf(file[j])[1] = DOT_ENDS})

\* line i of the file is an instance line of the root netlist
TopInstance(i) == IsDeviceLine(file[i]) /\ Depth(i) = 0

HeaderLines == _write_header(heap, Root, <<>>).lines

\* C5: a new sub-circuit that has loaded the text written for a sub-circuit
\* has loaded it with success and has its name, its external nodes, its
\* device lines in the same order and as many nested sub-circuits, with the
\* same names.
C5_RoundTrip ==
    (result.op = "load_from_file" /\ result.self = Fresh
        /\ result.status # "running")
    => /\ result.status = OK
       /\ heap[Fresh].name = heap[written].name
       /\ heap[Fresh].ext_nodes = heap[written].ext_nodes
       /\ heap[Fresh].devices = heap[written].devices
       /\ get_subcircuit_names(heap, Fresh) = get_subcircuit_names(heap, written)

\* C9: while and after write_in_fpath writes the file, the header lines come
\* first, no instance line is among them, and no line of a sub-circuit
\* definition comes after an instance line of the root netlist.
C9_WriteOrder ==
    result.op = "write_in_fpath" =>
        /\ Len(file) >= Len(HeaderLines)
        /\ SubSeq(file, 1, Len(HeaderLines)) = HeaderLines
        /\ \A i \in 1..Len(file) : IsDeviceLine(file[i]) => i > Len(HeaderLines)
        /\ \A i, j \in 1..Len(file) :
              (i < j /\ TopInstance(i)) => ~IsDefLine(file[j])

C9_Witness ==
    /\ result.op = "write_in_fpath"
    /\ result.status = OK
    /\ \E i, j \in 1..Len(file) : IsDefLine(file[i]) /\ TopInstance(j)
    /\ \E i \in 1..Len(file) : IsDeviceLine(file[i]) /\ Depth(i) > 0

\* a load that has ended, with success or not
LoadEnded == result.op = "load_from_file" /\ result.status # "running"

\* C6: a load that has read to the end of the file (the last readline gave
\* the empty str) without meeting an end directive has failed.
C6_TruncatedFails ==
    (LoadEnded /\ result.line = <<>>) => result.status # OK

\* the line the next iteration of the load in progress reads
NextLine == readline(ld.lines, ld.pos)

\* C7 (the registered case): an iteration of load on a line whose first word
\* starts with X and whose last word names a sub-circuit registered in the
\* loading scope creates one instance of that name (its count and the total
\* go up by one, one line is appended to devices) and the load goes on.
C7_LoadXLine ==
    [][(ld.active /\ WordsOf(NextLine) # <<>> /\ NextLine[1] = "X")
       => LET t == ld.self
              words == WordsOf(NextLine)
              name == words[Len(words)]
          IN  InSeq(name, get_subcircuit_names(heap, t))
              => /\ ld'.active
                 /\ heap'[t].count_device_total = heap[t].count_device_total + 1
                 /\ Count(heap'[t].count_device_dict, name)
                      = Count(heap[t].count_device_dict, name) + 1
                 /\ Len(heap'[t].devices) = Len(heap[t].devices) + 1]_vars

\* C8: a load whose loop has ended with success has ended on the end
\* directive for the name of the sub-circuit being loaded.
C8_EndsOnOwnDirective ==
    (LoadEnded /\ result.status = OK /\ result.k > 0)
    => result.line = end_line(heap, result.self)

----------------------------------------------------------------------------
(* Properties of the loop of load_from_file *)

\* a line load cannot classify: it has a first word, and the first character
\* of that word is none of R, L, C, X and '.'
Unclassified(l) ==
    WordsOf(l) # <<>> /\ WordsOf(l)[1][1] \notin {"R", "L", "C", "X", "."}

\* C11: an iteration of load on a line it cannot classify reports the line
\* and goes on: the load is still in progress and reads the next line next,
\* and no object has changed (no count, no total, no devices list), so the
\* lines after it are parsed from the state the load had before it.
C11_UnrecognizedNonFatal ==
    [][(ld.active /\ Unclassified(NextLine))
       => /\ ld'.active
          /\ ld'.pos = ld.pos + 1
          /\ ld'.lines = ld.lines /\ ld'.self = ld.self
          /\ Len(ld'.reports) = Len(ld.reports) + 1
          /\ heap' = heap]_vars

\* a load that reported the line after the header, then created the device
\* of the line after it, then met the end directive and succeeded
C11_Witness ==
    /\ LoadEnded /\ result.status = OK
    /\ file = <<HEADER_A, COMMENT, R_LINE, ENDS_A>>
    /\ Len(result.reports) = 1
    /\ heap[result.self].devices = <<R_LINE>>
    /\ heap[result.self].count_device_total = 1

\* a blank line: not the end of the file, and no word on it
IsBlank(l) == l # <<>> /\ WordsOf(l) = <<>>

\* the line the load reads next lies between a header line, the first of the
\* file, and an end directive
InBody ==
    /\ WordsOf(ld.lines[1]) # <<>> /\ WordsOf(ld.lines[1])[1] = DOT_SUBCIRCUIT
    /\ \E j \in (ld.pos + 2)..Len(ld.lines) :
          WordsOf(ld.lines[j]) # <<>> /\ WordsOf(ld.lines[j])[1] = DOT_ENDS

\* C12: an iteration of load on a blank line between the header line and
\* the end directive does not end the load: the load is still in progress
\* and reads the next line next, and no object has changed, so the lines
\* after it are parsed as if it were absent.
C12_BlankLineSkipped ==
    [][(ld.active /\ IsBlank(NextLine) /\ InBody)
       => /\ ld'.active
          /\ ld'.pos = ld.pos + 1
          /\ heap' = heap]_vars

\* C18: the number load has just reported for a line it cannot classify is
\* the position of that line in the file, the header line being line 1.
C18_ReportedLineNumber ==
    (/\ result.op = "load_from_file" /\ Unclassified(result.line)
     /\ WordsOf(file[1]) # <<>> /\ WordsOf(file[1])[1] = DOT_SUBCIRCUIT)
    => result.reports[Len(result.reports)] = result.pos

----------------------------------------------------------------------------
(* Properties of the text the writer emits *)

IsStart(l) == WordsOf(l) # <<>> /\ WordsOf(l)[1] = DOT_SUBCIRCUIT

IsEnd(l) == WordsOf(l) # <<>> /\ WordsOf(l)[1] = DOT_ENDS

\* the blocks started less the blocks ended in lines i..j of the file
Open(i, j) ==
    Cardinality({k \in i..j : IsStart(file[k])})
    - Cardinality({k \in i..j : IsEnd(file[k])})

\* the positions in lo..hi of the file that satisfy Test, in increasing order
Positions(lo, hi, Test(_)) ==
    SelectSeq([k \in 1..Len(file) |-> k],
              LAMBDA k : lo <= k /\ k <= hi /\ Test(k))

LinesAt(ps) == [n \in 1..Len(ps) |-> file[ps[n]]]

\* the block that starts at line i of the file is the definition of
\* sub-circuit o: its .SUBCIRCUIT line, then its device lines in creation
\* order, each once, then the definitions of its sub-circuits in registration
\* order, each of them wholly inside, then its .ENDS line
RECURSIVE IsDefinitionOf(_, _)
IsDefinitionOf(i, o) ==
    /\ i \in 1..Len(file)
    /\ file[i] = start_line(heap, o)
    /\ \E j \in (i + 1)..Len(file) :
          /\ Open(i, j) = 0
          /\ \A k \in i..(j - 1) : Open(i, k) > 0
          /\ file[j] = end_line(heap, o)
          /\ LET own == Positions(i + 1, j - 1,
                            LAMBDA k : IsDeviceLine(file[k]) /\ Open(i, k) = 1)
                 subs == Positions(i + 1, j - 1,
                            LAMBDA k : IsStart(file[k]) /\ Open(i, k) = 2)
             IN  /\ LinesAt(own) = heap[o].devices
                 /\ \A a \in 1..Len(own), b \in 1..Len(subs) : own[a] < subs[b]
                 /\ Len(subs) = Len(heap[o].subcircuits)
                 /\ \A n \in 1..Len(subs) :
                       IsDefinitionOf(subs[n], heap[o].subcircuits[n])

\* C13: the text write_in_fpath has written holds the device lines of the
\* root netlist in creation order, each once, outside every definition, and
\* the definitions of its sub-circuits in registration order; the text
\* _write_subcircuit has written is the definition of its sub-circuit: own
\* device lines in creation order, then the nested definitions in
\* registration order, wholly before its .ENDS line.
C13_InsertionOrder ==
    /\ (result.op = "write_in_fpath" /\ result.status = OK)
       => LET own == Positions(1, Len(file),
                         LAMBDA k : IsDeviceLine(file[k]) /\ Open(1, k) = 0)
              subs == Positions(1, Len(file),
                         LAMBDA k : IsStart(file[k]) /\ Open(1, k) = 1)
          IN  /\ LinesAt(own) = heap[Root].devices
              /\ Len(subs) = Len(heap[Root].subcircuits)
              /\ \A n \in 1..Len(subs) :
                    IsDefinitionOf(subs[n], heap[Root].subcircuits[n])
    /\ (result.op = "_write_subcircuit" /\ result.arg = "open"
            /\ result.status = OK)
       => \E i \in 1..2 : IsDefinitionOf(i, result.self)

\* a definition written with two devices of its own and a nested definition
C13_Witness ==
    /\ result.op = "_write_subcircuit" /\ result.arg = "open"
    /\ result.status = OK
    /\ Len(heap[result.self].devices) = 2
    /\ heap[result.self].devices[1] # heap[result.self].devices[2]
    /\ heap[result.self].subcircuits # <<>>

\* C14: _write_subcircuit on a closed stream fails with ClosedDestination
\* and has handed nothing to the stream: the file holds what it held before
\* the call, and no object has changed.
C14_ClosedDestination ==
    [][(IsCall("_write_subcircuit") /\ result'.arg = "closed")
       => /\ result'.status = ClosedDestination
          /\ file' = file
          /\ heap' = heap]_vars

\* a failed write on a closed stream, of a sub-circuit that has devices and a
\* nested sub-circuit, to a file that holds text
C14_Witness ==
    /\ result.op = "_write_subcircuit" /\ result.arg = "closed"
    /\ result.status = ClosedDestination
    /\ heap[result.self].devices # <<>>
    /\ heap[result.self].subcircuits # <<>>
    /\ file # <<>>

----------------------------------------------------------------------------
(* Properties of the counters and of the registrations *)

\* the label an instance line is counted under: the name that ends an X
\* line, the first character of an R, L or C line
LabelOf(l) ==
    IF l[1] = "X" THEN LET w == split(l) IN w[Len(w)] ELSE <<l[1]>>

LabelsAreKeys(h, s) ==
    \A i \in 1..Len(h[s].devices) :
        LabelOf(h[s].devices[i]) \in DOMAIN h[s].count_device_dict

\* C15: after every call, in every scope, R, L and C are keys of
\* count_device_dict and so is the label of every instance line the scope
\* holds; add_subcircuit leaves the name it registers as a key with count 0,
\* and subcircuit_instance creates an instance only of a name that was
\* registered in the scope, and a key, before the call.
C15_LabelIsKey ==
    [][/\ \A s \in Scopes :
             /\ RLC \subseteq DOMAIN heap'[s].count_device_dict
             /\ LabelsAreKeys(heap', s)
       /\ (IsCall("add_subcircuit") /\ result'.status = OK)
          => LET name == heap[result'.arg.id].name
                 d == heap'[result'.self].count_device_dict
             IN  name \in DOMAIN d /\ d[name] = 0
       /\ (IsCall("subcircuit_instance") /\ result'.status = OK)
          => LET name == heap[result'.arg.id].name
             IN  /\ name \in DOMAIN heap[result'.self].count_device_dict
                 /\ InSeq(name, get_subcircuit_names(heap, result'.self))]_vars

\* a scope that holds an R line and an instance line of a registered name
C15_Witness ==
    /\ result.op = "subcircuit_instance" /\ result.status = OK
    /\ \E i, j \in 1..Len(heap[result.self].devices) :
          /\ heap[result.self].devices[i][1] = "X"
          /\ heap[result.self].devices[j][1] = "R"
    /\ LabelOf(heap[result.self].devices[Len(heap[result.self].devices)])
          \notin RLC

\* the sub-circuits registered in scope s
Children(s) == {heap[s].subcircuits[i] : i \in 1..Len(heap[s].subcircuits)}

\* the scopes that have registered sub-circuit o
Owners(o) == {s \in Scopes : o \in Children(s)}

\* the sub-circuits reached from the set S by at most n registrations
RECURSIVE Reached(_, _)
Reached(S, n) ==
    IF n = 0 THEN S
    ELSE Reached(S \cup UNION {Children(s) : s \in S}, n - 1)

\* the sub-circuits nested in scope s, at any depth
Descendants(s) == Reached(Children(s), Cardinality(Scopes))

\* C16: every sub-circuit is registered in at most one scope, and in no
\* scope that is itself or one of its own descendants.
C16_Forest ==
    \A o \in SubIds :
        /\ Cardinality(Owners(o)) <= 1
        /\ o \notin Descendants(o)

\* C17: a call of rlc_instance or of subcircuit_instance on a scope, with
\* success or not, changes no other object: the counts, the total and the
\* devices list of every other scope, its parent and its nested sub-circuits
\* included, are what they were.
C17_NumberingLocal ==
    [][(IsCall("rlc_instance") \/ IsCall("subcircuit_instance"))
       => \A o \in Scopes \ {result'.self} : heap'[o] = heap[o]]_vars

\* an instance created in a sub-circuit that is registered in the root
\* netlist, which has instances of its own, and that has a nested sub-circuit
C17_Witness ==
    /\ result.op \in {"rlc_instance", "subcircuit_instance"}
    /\ result.status = OK
    /\ result.self \in Children(Root)
    /\ heap[Root].count_device_total > 0
    /\ Children(result.self) \ {result.self} # {}
    /\ heap[result.self].count_device_total > 0

\* the sum of the counts of a count_device_dict
RECURSIVE SumCounts(_)
SumCounts(d) ==
    IF DOMAIN d = {} THEN 0
    ELSE LET key == CHOOSE x \in DOMAIN d : TRUE
         IN  d[key] + SumCounts([x \in DOMAIN d \ {key} |-> d[x]])

\* C19: after every call of add_subcircuit, rlc_instance and
\* subcircuit_instance, with success or not, in every scope the total is the
\* sum of the counts and the number of lines of devices, and no count is
\* less than it was before the call.
C19_TotalIsSum ==
    [][\A s \in Scopes :
          /\ heap'[s].count_device_total = SumCounts(heap'[s].count_device_dict)
          /\ heap'[s].count_device_total = Len(heap'[s].devices)
          /\ \A key \in DOMAIN heap[s].count_device_dict :
                /\ key \in DOMAIN heap'[s].count_device_dict
                /\ heap'[s].count_device_dict[key]
                      >= heap[s].count_device_dict[key]]_vars

----------------------------------------------------------------------------
(* Termination of load_from_file *)

\* C20: a load in progress ends, with success or not; each iteration that
\* does not end it has read one more line of the same file; and no iteration
\* starts once a readline has met the end of the file: while the load is in
\* progress, the line last read is not the empty str and the lines read are
\* lines of the file.
C20_LoadTerminates ==
    /\ (ld.active ~> ~ld.active)
    /\ [][(ld.active /\ ld'.active)
          => (ld'.pos = ld.pos + 1 /\ ld'.lines = ld.lines)]_vars
    /\ [](ld.active => (ld.line # <<>> /\ ld.pos <= Len(ld.lines)))

\* a load that has read every line of a file of four lines with no end
\* directive, and has ended on its fourth iteration at the end of the file
C20_Witness ==
    /\ LoadEnded
    /\ Len(file) = 4
    /\ result.k = 4 /\ result.pos = 5
    /\ result.line = <<>>
    /\ result.status = IndexError

====
